---- MODULE Spec2Model ----
(***************************************************************************)
(* Parallel evaluation runner (scripts/run.ts): main() parses the command  *)
(* line, builds the agent x search-provider matrix, starts the status      *)
(* heartbeat, drains the matrix through limitConcurrency, stops the        *)
(* heartbeat, prints the summary and exits with the aggregate exit code.   *)
(*                                                                         *)
(* A command-line argument is a sequence of lexemes: a flag or a name is   *)
(* one lexeme (<<"--agent">>, <<"gemini">>), a numeric value is the        *)
(* sequence of its characters (<<"-", "1">>), the empty string is <<>>.    *)
(***************************************************************************)
EXTENDS Integers, Sequences, FiniteSets, TLC

VARIABLES
    argv,               \* process.argv.slice(2), <<>> once parseCommonArgs has read it
    entrypoint,         \* docker/entrypoint as detectCurrentMode will read it
    hung,               \* task whose process never exits, 0 when every process exits
    pc,                 \* position of main()
    runs,               \* RunConfig[] built by main (the matrix)
    concurrency,        \* container concurrency handed to the limiter
    promptConcurrency,  \* prompt concurrency passed through to the containers
    completed,          \* Set<number> of completed scenario ids (1-based)
    statusInterval,     \* heartbeat timer: "none", "active" or "cleared"
    beats,              \* heartbeat lines printed so far
    lastBeat,           \* completed count printed by the latest heartbeat line (0 before any)
    tasks,              \* indices of runs for which main built a deferred task
    taskState,          \* limiter: per task "pending", "running" or "settled"
    launches,           \* per scenario, how often its runner was invoked
    scenario,           \* per scenario, what its runner produced
    results,            \* limiter: per task, the recorded result
    limiter,            \* limitConcurrency promise: "idle", "running", "resolved", "rejected"
    summary,            \* lines of the final summary, <<>> until printed
    failures,           \* failures returned by printResultsSummary
    exitCode            \* process exit code, NoExit while running

vars == <<argv, entrypoint, hung, pc, runs, concurrency, promptConcurrency, completed, statusInterval,
          beats, lastBeat, tasks, taskState, launches, scenario, results,
          limiter, summary, failures, exitCode>>

(***************************************************************************)
(* Bounds of the model.                                                    *)
(***************************************************************************)
MaxN == 3          \* longest matrix drawn directly (CoreSpec)
MaxCap == 3        \* largest finite cap drawn directly (CoreSpec)
MaxFailing == 1    \* scenarios of one run that do not exit 0
MaxBeats == 2      \* heartbeat lines printed in one run

(***************************************************************************)
(* JavaScript values.                                                      *)
(***************************************************************************)
Undefined == [t |-> "undefined"]
Infinity == [t |-> "Infinity"]
NaN == [t |-> "NaN"]
Num(n) == [t |-> "number", n |-> n]

\* a < b for a finite count a and a number-or-Infinity b
LessThan(a, b) == b.t = "Infinity" \/ (b.t = "number" /\ a < b.n)

\* x ?? d
Coalesce(x, d) == IF x = Undefined THEN d ELSE x

Digits == <<"0", "1", "2", "3", "4", "5", "6", "7", "8", "9">>
IsDigit(c) == \E k \in 1..10 : Digits[k] = c
DigitVal(c) == (CHOOSE k \in 1..10 : Digits[k] = c) - 1

RECURSIVE ParseDigits(_, _, _, _)
ParseDigits(s, i, acc, seen) ==
    IF i <= Len(s) /\ IsDigit(s[i])
    THEN ParseDigits(s, i + 1, 10 * acc + DigitVal(s[i]), TRUE)
    ELSE IF seen THEN Num(acc) ELSE NaN

\* Number.parseInt(s, 10): optional sign, then the longest prefix of digits
ParseInt(s) ==
    LET signed == Len(s) > 0 /\ s[1] \in {"-", "+"}
        mag == ParseDigits(s, IF signed THEN 2 ELSE 1, 0, FALSE)
    IN  IF mag = NaN THEN NaN
        ELSE IF signed /\ s[1] = "-" THEN Num(0 - mag.n) ELSE mag

(***************************************************************************)
(* scripts/shared/args.ts                                                  *)
(***************************************************************************)
ALL_AGENTS == <<"claude-code", "gemini", "droid", "codex">>
McpServerKeys == <<"you">>
validProviders == <<"builtin">> \o McpServerKeys

Includes(seq, x) == \E k \in 1..Len(seq) : seq[k] = x
Lexeme(arg) == IF Len(arg) = 1 THEN arg[1] ELSE "?"

NoError == "none"

\* -j 0 means unlimited
ConcurrencyValue(value) == IF value = 0 THEN Infinity ELSE Num(value)

RECURSIVE ParseLoop(_, _, _)
ParseLoop(args, i, o) ==
    IF i > Len(args) \/ o.error # NoError THEN o
    ELSE IF args[i] = <<"--agent">> /\ i < Len(args) THEN
        IF ~Includes(ALL_AGENTS, Lexeme(args[i + 1]))
        THEN [o EXCEPT !.error = "Invalid agent"]
        ELSE ParseLoop(args, i + 2,
                       [o EXCEPT !.agents = Append(@, Lexeme(args[i + 1]))])
    ELSE IF args[i] = <<"--mode">> /\ i < Len(args) THEN
        IF args[i + 1] # <<"test">> /\ args[i + 1] # <<"full">>
        THEN [o EXCEPT !.error = "Invalid mode"]
        ELSE ParseLoop(args, i + 2, [o EXCEPT !.mode = Lexeme(args[i + 1])])
    ELSE IF args[i] \in {<<"--search-provider">>, <<"--mcp">>} /\ i < Len(args) THEN
        IF ~Includes(validProviders, Lexeme(args[i + 1]))
        THEN [o EXCEPT !.error = "Invalid search provider"]
        ELSE ParseLoop(args, i + 2,
                       [o EXCEPT !.searchProvider = Lexeme(args[i + 1])])
    ELSE IF args[i] \in {<<"-j">>, <<"--concurrency">>} /\ i < Len(args) THEN
        IF args[i + 1] = <<>>
        THEN [o EXCEPT !.error = "Missing value for concurrency flag"]
        ELSE LET value == ParseInt(args[i + 1])
             IN  IF value = NaN \/ value.n < 0
                 THEN [o EXCEPT !.error = "Invalid concurrency"]
                 ELSE ParseLoop(args, i + 2,
                                [o EXCEPT !.concurrency = ConcurrencyValue(value.n)])
    ELSE IF args[i] = <<"--prompt-concurrency">> /\ i < Len(args) THEN
        IF args[i + 1] = <<>>
        THEN [o EXCEPT !.error = "Missing value for prompt-concurrency flag"]
        ELSE LET value == ParseInt(args[i + 1])
             IN  IF value = NaN \/ value.n < 1
                 THEN [o EXCEPT !.error = "Invalid prompt-concurrency"]
                 ELSE ParseLoop(args, i + 2, [o EXCEPT !.promptConcurrency = value])
    ELSE IF args[i] = <<"--dry-run">> THEN
        ParseLoop(args, i + 1, [o EXCEPT !.dryRun = TRUE])
    ELSE ParseLoop(args, i + 1, o)

parseCommonArgs(args) ==
    LET o == ParseLoop(args, 1,
                 [agents |-> <<>>, mode |-> "", searchProvider |-> "",
                  concurrency |-> Undefined, promptConcurrency |-> Undefined,
                  dryRun |-> FALSE, error |-> NoError])
    IN  [o EXCEPT !.agents = IF Len(o.agents) > 0 THEN o.agents ELSE ALL_AGENTS]

(***************************************************************************)
(* scripts/run.ts: detectCurrentMode.  The entrypoint file is abstracted   *)
(* to what the function looks at: whether it can be read, the default of   *)
(* its DATASET constant ("" when the pattern does not match) and which     *)
(* prompt paths it contains.                                               *)
(***************************************************************************)
detectCurrentMode(content) ==
    IF ~content.readable THEN [mode |-> "", error |-> "ENOENT"]
    ELSE IF content.dataset # "" THEN [mode |-> content.dataset, error |-> NoError]
    ELSE IF content.templatePath \/ content.testPath
         THEN [mode |-> "test", error |-> NoError]
    ELSE IF content.fullPath THEN [mode |-> "full", error |-> NoError]
    ELSE [mode |-> "", error |-> "Could not detect current mode"]

\* the file once main no longer reads it
NoFile ==
    [readable |-> FALSE, dataset |-> "", templatePath |-> FALSE,
     testPath |-> FALSE, fullPath |-> FALSE]

EntrypointFiles ==
    { NoFile,
      [NoFile EXCEPT !.readable = TRUE],
      [NoFile EXCEPT !.readable = TRUE, !.dataset = "full"],
      [NoFile EXCEPT !.readable = TRUE, !.templatePath = TRUE],
      [NoFile EXCEPT !.readable = TRUE, !.testPath = TRUE],
      [NoFile EXCEPT !.readable = TRUE, !.fullPath = TRUE] }

(***************************************************************************)
(* Command lines main() is run with.                                       *)
(***************************************************************************)
AgentArgs ==
    { <<>>,
      << <<"--agent">>, <<"gemini">> >>,
      << <<"--agent">>, <<"claude-code">>, <<"--agent">>, <<"gemini">> >>,
      << <<"--agent">>, <<"bogus">> >>,
      << <<"--agent">> >> }
ProviderArgs ==
    { <<>>,
      << <<"--search-provider">>, <<"you">> >>,
      << <<"--mcp">>, <<"builtin">> >>,
      << <<"--search-provider">>, <<"bing">> >> }
ModeArgs ==
    { <<>>, << <<"--mode">>, <<"test">> >>, << <<"--mode">>, <<"prod">> >> }
NumberArgs ==
    { <<"0">>, <<"1">>, <<"0", "2">>, <<"-", "1">>, <<"x">>, <<"2", "x">>, <<>> }
ConcurrencyArgs ==
    { <<>> } \cup { << <<"-j">>, n >> : n \in NumberArgs }
             \cup { << <<"--concurrency">>, <<"+", "1">> >> }
PromptConcurrencyArgs ==
    { <<>> } \cup { << <<"--prompt-concurrency">>, n >> :
                        n \in { <<"1", "2">>, <<"0">>, <<"x">>, <<>> } }
DryRunArgs == { <<>>, << <<"--dry-run">> >> }

ArgLists ==
    { a \o p \o m \o j \o q \o d :
        a \in AgentArgs, p \in ProviderArgs, m \in ModeArgs,
        j \in ConcurrencyArgs, q \in PromptConcurrencyArgs, d \in DryRunArgs }

(***************************************************************************)
(* scripts/run.ts: main, up to the dry-run exit (lines 89-141).            *)
(***************************************************************************)
NoExit == -1

DefaultConcurrency(options) == Coalesce(options.concurrency, Infinity)

DefaultPromptConcurrency(options) == Coalesce(options.promptConcurrency, Num(1))

SearchProviders(options) ==
    IF options.searchProvider # "" THEN <<options.searchProvider>>
    ELSE validProviders

\* for (agent of agents) for (provider of searchProviders) runs.push(...)
BuildRuns(agents, providers) ==
    [ k \in 1..(Len(agents) * Len(providers)) |->
        [agent |-> agents[((k - 1) \div Len(providers)) + 1],
         searchProvider |-> providers[((k - 1) % Len(providers)) + 1]] ]

NoTasks == <<>>
NoResults == <<>>

Idle ==
    /\ completed = {}
    /\ statusInterval = "none"
    /\ beats = 0
    /\ lastBeat = 0
    /\ tasks = NoTasks
    /\ taskState = <<>>
    /\ launches = <<>>
    /\ scenario = <<>>
    /\ results = NoResults
    /\ limiter = "idle"
    /\ summary = <<>>
    /\ failures = <<>>
    /\ exitCode = NoExit

Init ==
    /\ argv \in ArgLists
    /\ entrypoint \in EntrypointFiles
    /\ hung = 0
    /\ pc = "start"
    /\ runs = <<>>
    /\ concurrency = Undefined
    /\ promptConcurrency = Undefined
    /\ Idle

MainSetup ==
    /\ pc = "start"
    /\ argv' = <<>>
    /\ entrypoint' = NoFile
    /\ LET options == parseCommonArgs(argv)
           detected == IF options.mode # ""
                       THEN [mode |-> options.mode, error |-> NoError]
                       ELSE detectCurrentMode(entrypoint)
       IN  IF options.error # NoError
             THEN /\ pc' = "catch"
                  /\ UNCHANGED <<runs, concurrency, promptConcurrency, exitCode>>
             ELSE /\ concurrency' = DefaultConcurrency(options)
                  /\ promptConcurrency' = DefaultPromptConcurrency(options)
                  /\ IF detected.error # NoError
                     THEN /\ pc' = "catch"
                          /\ UNCHANGED <<runs, exitCode>>
                     ELSE /\ runs' = BuildRuns(options.agents, SearchProviders(options))
                          /\ IF options.dryRun
                             THEN pc' = "done" /\ exitCode' = 0
                             ELSE pc' = "heartbeat" /\ UNCHANGED exitCode
    /\ UNCHANGED <<hung, completed, statusInterval, beats, lastBeat, tasks,
                   taskState, launches, scenario, results, limiter, summary,
                   failures>>

\* catch (error) { console.error(...); process.exit(1) }
MainCatch ==
    /\ \/ pc = "catch"
       \/ pc = "await" /\ limiter = "rejected"
    /\ pc' = "done"
    /\ exitCode' = 1
    /\ UNCHANGED <<argv, entrypoint, hung, runs, concurrency, promptConcurrency, completed, statusInterval,
                   beats, lastBeat, tasks, taskState, launches, scenario, results,
                   limiter, summary, failures>>

(***************************************************************************)
(* scripts/shared/reporting.ts: createStatusHeartbeat.  The timer prints   *)
(* nothing when it is created; each tick prints the size the completion    *)
(* set has at that moment.                                                 *)
(***************************************************************************)
createStatusHeartbeat == "active"

\* const completed = new Set(); const statusInterval = createStatusHeartbeat(...)
StartHeartbeat ==
    /\ pc = "heartbeat"
    /\ completed' = {}
    /\ statusInterval' = createStatusHeartbeat
    /\ pc' = "limit"
    /\ UNCHANGED <<argv, entrypoint, hung, runs, concurrency, promptConcurrency, beats, lastBeat, tasks,
                   taskState, launches, scenario, results, limiter, summary,
                   failures, exitCode>>

\* what main hands over as `completed`: the set itself, not a copy of it
StartSnapshot == {}
HeartbeatView == completed

\* a tick that reports the ids completed since the previous tick and forgets them
DrainingTick ==
    /\ statusInterval = "active"
    /\ pc # "done"
    /\ beats < MaxBeats
    /\ beats' = beats + 1
    /\ lastBeat' = Cardinality(HeartbeatView)
    /\ completed' = {}
    /\ UNCHANGED <<argv, entrypoint, hung, pc, runs, concurrency, promptConcurrency,
                   statusInterval, tasks, taskState, launches, scenario, results,
                   limiter, summary, failures, exitCode>>

HeartbeatTick ==
    /\ statusInterval = "active"
    /\ pc # "done"
    /\ beats < MaxBeats
    /\ beats' = beats + 1
    /\ lastBeat' = Cardinality(HeartbeatView)
    /\ UNCHANGED <<argv, entrypoint, hung, pc, runs, concurrency, promptConcurrency, completed,
                   statusInterval, tasks, taskState, launches, scenario, results,
                   limiter, summary, failures, exitCode>>

(***************************************************************************)
(* scripts/shared/concurrency-limiter.ts: limitConcurrency.                *)
(***************************************************************************)
FailureEntry == 1

Count(f, v) == Cardinality({ i \in DOMAIN f : f[i] = v })
InFlight == Count(taskState, "running")
Pending(ts) == { i \in DOMAIN ts : ts[i] = "pending" }
Min(S) == CHOOSE x \in S : \A y \in S : x <= y

\* start pending tasks in input order while the cap leaves room
RECURSIVE Admit(_, _)
Admit(ts, maxConcurrent) ==
    IF Pending(ts) # {} /\ LessThan(Count(ts, "running"), maxConcurrent)
    THEN Admit([ts EXCEPT ![Min(Pending(ts))] = "running"], maxConcurrent)
    ELSE ts

\* the result of task i goes to slot i
Record(res, i, v) ==
    [ k \in (DOMAIN res) \cup {i} |-> IF k = i THEN v ELSE res[k] ]

Started(old, new) == { i \in DOMAIN new : old[i] = "pending" /\ new[i] = "running" }

(***************************************************************************)
(* scripts/run.ts: the deferred tasks main hands to the limiter            *)
(* (lines 155-178).                                                        *)
(***************************************************************************)
\* runs.map((run, index) => () => ...): task k is for runs[k], index = k - 1
AllButLast(rs) == [ k \in 1..(Len(rs) - 1) |-> k - 1 ]
FirstIndexOnly(rs) == [ k \in 1..Len(rs) |-> 0 ]
MainTasks(rs) == [ k \in 1..Len(rs) |-> k - 1 ]

\* the scenario task k runs: runs[index], 1-based
ScenarioOf(ts, k) == ts[k] + 1

\* the cap main passes as limitConcurrency's second argument
PromptCap == promptConcurrency
LimiterCap == concurrency

\* completed.add(index + 1)
CompletedIndex(index) == index
CompletedId(index) == index + 1

\* return result.exitCode
ThenZero(result) == 0
ThenValue(result) == result.exitCode

\* a scenario whose runner has not completed
NotRun == [kind |-> "none", exitCode |-> 0]

CallLimiter ==
    /\ pc = "limit"
    /\ tasks' = MainTasks(runs)
    /\ taskState' = Admit([ k \in DOMAIN tasks' |-> "pending" ], LimiterCap)
    /\ launches' = [ id \in 1..Len(runs) |->
                       Cardinality({ k \in DOMAIN tasks' :
                           taskState'[k] = "running" /\ ScenarioOf(tasks', k) = id }) ]
    /\ scenario' = [ id \in 1..Len(runs) |-> NotRun ]
    /\ results' = NoResults
    /\ limiter' = IF Len(tasks') = 0 THEN "resolved" ELSE "running"
    /\ pc' = "await"
    /\ UNCHANGED <<argv, entrypoint, hung, runs, concurrency, promptConcurrency, completed, statusInterval,
                   beats, lastBeat, summary, failures, exitCode>>

(***************************************************************************)
(* scripts/shared/docker-runner.ts: runDockerScenario.  A runner resolves  *)
(* with the exit code of its process, or with the launch-failure sentinel; *)
(* "rejected" is a task whose promise rejects.                             *)
(***************************************************************************)
LaunchFailureCode == 1

Outcomes ==
    { [kind |-> "exit", exitCode |-> 0],
      [kind |-> "exit", exitCode |-> 2],
      [kind |-> "launchFailure", exitCode |-> LaunchFailureCode],
      [kind |-> "rejected", exitCode |-> 0] }

Succeeded(out) == out.kind = "exit" /\ out.exitCode = 0
Failing(sc) == { i \in DOMAIN sc : sc[i].kind # "none" /\ ~Succeeded(sc[i]) }

\* The runner of task k settles; the .then callback of main and the limiter's
\* bookkeeping run in the same turn of the event loop.
Settle(k) ==
    /\ pc = "await"
    /\ limiter = "running"
    /\ k \in DOMAIN taskState
    /\ taskState[k] = "running"
    /\ k # hung
    /\ \E out \in Outcomes :
         /\ Succeeded(out) \/ Cardinality(Failing(scenario)) < MaxFailing
         /\ scenario' = [scenario EXCEPT ![ScenarioOf(tasks, k)] = out]
         /\ completed' = IF out.kind = "rejected" THEN completed
                         ELSE completed \cup {CompletedId(tasks[k])}
         /\ results' = Record(results, k,
                              IF out.kind = "rejected" THEN FailureEntry
                              ELSE ThenValue(out))
    /\ taskState' = Admit([taskState EXCEPT ![k] = "settled"], LimiterCap)
    /\ launches' = [ id \in DOMAIN launches |->
                       launches[id] + Cardinality(
                           { i \in Started([taskState EXCEPT ![k] = "settled"], taskState') :
                               ScenarioOf(tasks, i) = id }) ]
    /\ limiter' = IF \A i \in DOMAIN taskState' : taskState'[i] = "settled"
                  THEN "resolved" ELSE "running"
    /\ UNCHANGED <<argv, entrypoint, hung, pc, runs, concurrency, promptConcurrency, statusInterval, beats,
                   lastBeat, tasks, summary, failures, exitCode>>

(***************************************************************************)
(* scripts/run.ts: main after the limiter has resolved (lines 180-183).    *)
(***************************************************************************)
KeepInterval(handle) == handle
clearInterval(handle) == "cleared"

ClearWithoutAwait ==
    /\ pc = "await"
    /\ statusInterval' = clearInterval(statusInterval)
    /\ pc' = "summary"
    /\ UNCHANGED <<argv, entrypoint, hung, runs, concurrency, promptConcurrency,
                   completed, beats, lastBeat, tasks, taskState, launches,
                   scenario, results, limiter, summary, failures, exitCode>>

ClearHeartbeat ==
    /\ pc = "await"
    /\ limiter = "resolved"
    /\ statusInterval' = clearInterval(statusInterval)
    /\ pc' = "summary"
    /\ UNCHANGED <<argv, entrypoint, hung, runs, concurrency, promptConcurrency, completed, beats, lastBeat,
                   tasks, taskState, launches, scenario, results, limiter, summary,
                   failures, exitCode>>

\* scripts/shared/reporting.ts: printResultsSummary, one line per run in index order
Passed(res, i) == i \in DOMAIN res /\ res[i] = 0

RECURSIVE FailedFrom(_, _, _)
FailedFrom(rs, res, i) ==
    IF i > Len(rs) THEN <<>>
    ELSE (IF Passed(res, i) THEN <<>> ELSE <<i>>) \o FailedFrom(rs, res, i + 1)

printResultsSummary(rs, res) ==
    [ lines |-> [ i \in 1..Len(rs) |-> [id |-> i, pass |-> Passed(res, i)] ],
      failures |-> FailedFrom(rs, res, 1) ]

PrintSummary ==
    /\ pc = "summary"
    /\ summary' = printResultsSummary(runs, results).lines
    /\ failures' = printResultsSummary(runs, results).failures
    /\ pc' = "exit"
    /\ UNCHANGED <<argv, entrypoint, hung, runs, concurrency, promptConcurrency, completed, statusInterval,
                   beats, lastBeat, tasks, taskState, launches, scenario, results,
                   limiter, exitCode>>

\* scripts/shared/reporting.ts: handleExit
handleExit(failed) == IF Len(failed) = 0 THEN 0 ELSE 1

\* await handleExit(failures)
ExitAlways(failed) == handleExit(<<>>)
ExitArgument(failed) == handleExit(failed)

HandleExit ==
    /\ pc = "exit"
    /\ exitCode' = ExitArgument(failures)
    /\ pc' = "done"
    /\ UNCHANGED <<argv, entrypoint, hung, runs, concurrency, promptConcurrency, completed, statusInterval,
                   beats, lastBeat, tasks, taskState, launches, scenario, results,
                   limiter, summary, failures>>

(***************************************************************************)
(* The program, from its command line.                                     *)
(***************************************************************************)
Next ==
    \/ MainSetup
    \/ MainCatch
    \/ StartHeartbeat
    \/ HeartbeatTick
    \/ CallLimiter
    \/ \E k \in DOMAIN taskState : Settle(k)
    \/ ClearHeartbeat
    \/ PrintSummary
    \/ HandleExit

Spec == Init /\ [][Next]_vars

(***************************************************************************)
(* The core (heartbeat, limiter, runners, aggregation) on any matrix of    *)
(* up to MaxN scenarios and any cap, as main enters it at line 143.        *)
(***************************************************************************)
Matrices ==
    UNION { [ 1..n -> { [agent |-> "gemini", searchProvider |-> "builtin"] } ] :
              n \in 0..MaxN }

CoreInit ==
    /\ argv = <<>>
    /\ entrypoint = NoFile
    /\ hung = 0
    /\ pc = "heartbeat"
    /\ runs \in Matrices
    /\ concurrency \in {Infinity} \cup { Num(k) : k \in 1..MaxCap }
    /\ promptConcurrency \in { Num(1), Num(MaxCap + 1) }
    /\ Idle

CoreNext ==
    \/ StartHeartbeat
    \/ HeartbeatTick
    \/ CallLimiter
    \/ \E k \in DOMAIN taskState : Settle(k)
    \/ ClearHeartbeat
    \/ PrintSummary
    \/ HandleExit

CoreSpec == CoreInit /\ [][CoreNext]_vars

\* Every started runner eventually settles, and main and the limiter take
\* their own steps; the heartbeat timer is under no obligation.
CoreFairness ==
    /\ WF_vars(StartHeartbeat)
    /\ WF_vars(CallLimiter)
    /\ \A k \in 1..MaxN : WF_vars(Settle(k))
    /\ WF_vars(ClearHeartbeat)
    /\ WF_vars(PrintSummary)
    /\ WF_vars(HandleExit)

FairCoreSpec == CoreSpec /\ CoreFairness

\* The core with at most one scenario whose process never exits: the runner
\* of scenario `hung` never settles once started (0: every runner settles).
HungInit ==
    /\ argv = <<>>
    /\ entrypoint = NoFile
    /\ pc = "heartbeat"
    /\ runs \in Matrices
    /\ hung \in 0..Len(runs)
    /\ concurrency \in {Infinity} \cup { Num(k) : k \in 1..MaxCap }
    /\ promptConcurrency \in { Num(1), Num(MaxCap + 1) }
    /\ Idle

HungSpec == HungInit /\ [][CoreNext]_vars /\ CoreFairness

(***************************************************************************)
(* Vocabulary of the properties.                                           *)
(***************************************************************************)
N == Len(runs)
Returned == limiter = "resolved"
Launched == limiter # "idle"

\* what the limiter owes for scenario i once its task has settled
OutcomeOf(i) ==
    IF scenario[i].kind = "rejected" THEN FailureEntry ELSE scenario[i].exitCode

HasSettled(i) == i \in DOMAIN scenario /\ scenario[i].kind # "none"
AllStarted == \A i \in 1..N : i \in DOMAIN launches /\ launches[i] >= 1
AllSettled == \A i \in 1..N : HasSettled(i)
Rejected == { i \in DOMAIN scenario : scenario[i].kind = "rejected" }
LaunchFailed == { i \in DOMAIN scenario : scenario[i].kind = "launchFailure" }
PassLines == { i \in DOMAIN summary : summary[i].pass }
AfterStop == pc \in {"summary", "exit", "done"}

(***************************************************************************)
(* C1  Order preservation: when limitConcurrency has returned, the result  *)
(* sequence has one slot per scenario of the matrix and slot i holds the   *)
(* outcome of task i; while the limiter runs, every slot already filled    *)
(* holds the outcome of its own task.                                      *)
(***************************************************************************)
C1_OrderPreservation ==
    /\ \A i \in DOMAIN results : HasSettled(i) /\ results[i] = OutcomeOf(i)
    /\ Returned => DOMAIN results = 1..N

C1_Witness ==
    /\ Returned
    /\ N = 3
    /\ concurrency = Num(2)
    /\ results[1] = 0 /\ results[2] = 2 /\ results[3] = 0

(***************************************************************************)
(* C2  Cap respected: under a finite cap k the number of tasks started     *)
(* and not yet settled never exceeds k.                                    *)
(***************************************************************************)
C2_CapRespected ==
    concurrency.t = "number" => InFlight <= concurrency.n

C2_Witness ==
    /\ concurrency = Num(2)
    /\ N = 3
    /\ InFlight = 2
    /\ \E i \in DOMAIN taskState : taskState[i] = "settled"

(***************************************************************************)
(* C3  Failure isolation: a rejecting task leaves the limiter running      *)
(* (it never rejects), admission goes on while tasks are pending, and at   *)
(* return every scenario has been started and settled, with a failure      *)
(* entry at the index of the rejected task and every other task's own      *)
(* outcome at its index.                                                   *)
(***************************************************************************)
C3_FailureIsolation ==
    Rejected # {} =>
        /\ limiter \in {"running", "resolved"}
        /\ pc # "catch"
        /\ Pending(taskState) # {} => ~LessThan(InFlight, concurrency)
        /\ Returned =>
             /\ AllStarted /\ AllSettled
             /\ DOMAIN results = 1..N
             /\ \A j \in Rejected : results[j] # 0
             /\ \A i \in (1..N) \ Rejected : results[i] = scenario[i].exitCode

C3_Witness ==
    /\ Returned
    /\ N = 3
    /\ concurrency = Num(1)
    /\ scenario[1].kind = "rejected"
    /\ results[1] = FailureEntry /\ results[2] = 0 /\ results[3] = 0

(***************************************************************************)
(* C4  Exit-code policy: a completed run exits 0 exactly when every        *)
(* scenario of the matrix exited 0 (so an empty matrix exits 0), and       *)
(* nonzero otherwise.                                                      *)
(***************************************************************************)
C4_ExitCodePolicy ==
    pc = "done" =>
        /\ exitCode # NoExit
        /\ exitCode = 0 <=> \A i \in 1..N : Succeeded(scenario[i])

C4_Witness ==
    /\ pc = "done"
    /\ N = 3
    /\ scenario[2] = [kind |-> "exit", exitCode |-> 2]
    /\ Succeeded(scenario[1]) /\ Succeeded(scenario[3])
    /\ exitCode # 0

(***************************************************************************)
(* C5  All scenarios run to completion: given that every started task      *)
(* settles, every scenario of the matrix is eventually started and the     *)
(* limiter eventually returns, and it has returned only when every one of  *)
(* the N tasks has settled.                                                *)
(***************************************************************************)
C5_RunToCompletion ==
    /\ <>AllStarted
    /\ <>Returned
    /\ [](Returned => AllSettled /\ DOMAIN taskState = 1..N)

C5_Witness ==
    /\ Returned
    /\ N = 3
    /\ concurrency = Num(1)
    /\ AllSettled
    /\ Rejected # {}

(***************************************************************************)
(* C6  Unbounded means no queueing: with the unbounded cap every task is   *)
(* started by the call of limitConcurrency itself, so no task is ever      *)
(* pending and a state with all N tasks in flight at once is reached.      *)
(***************************************************************************)
C6_UnboundedNoQueueing ==
    (concurrency = Infinity /\ Launched) =>
        /\ DOMAIN taskState = 1..N
        /\ Pending(taskState) = {}
        /\ \A i \in 1..N : launches[i] = 1

C6_Witness ==
    /\ concurrency = Infinity
    /\ N = 8
    /\ InFlight = 8

(***************************************************************************)
(* C7  Exactly one result per scenario: a scenario is launched at most     *)
(* once; what its runner produced and the result recorded for it never     *)
(* change afterwards; and at return every scenario has exactly one result. *)
(***************************************************************************)
C7_OneResultPerScenario ==
    /\ [](\A i \in DOMAIN launches : launches[i] <= 1)
    /\ [](Returned => DOMAIN results = 1..N /\ AllSettled)
    /\ [][ /\ \A i \in DOMAIN results :
                i \in DOMAIN results' /\ results'[i] = results[i]
           /\ \A i \in DOMAIN scenario :
                HasSettled(i) => scenario'[i] = scenario[i] ]_vars

C7_Witness ==
    /\ pc = "done"
    /\ N = 3
    /\ \A i \in 1..N : launches[i] = 1 /\ i \in DOMAIN results
    /\ LaunchFailed # {}

(***************************************************************************)
(* C8  Launch failure is data: a scenario whose process could not be       *)
(* launched yields a nonzero result at its index and its completion is     *)
(* recorded, nothing is thrown, the other scenarios keep their own         *)
(* results, and the run ends with that scenario failed and a nonzero exit  *)
(* code; 8 unbounded tasks with one launch failure end with 8 results,     *)
(* 7 passed and 1 failed.                                                  *)
(***************************************************************************)
C8_LaunchFailureIsData ==
    /\ \A f \in LaunchFailed :
         /\ scenario[f].exitCode # 0
         /\ f \in completed
         /\ f \in DOMAIN results /\ results[f] # 0
         /\ pc # "catch" /\ limiter # "rejected"
         /\ \A i \in DOMAIN results :
              scenario[i].kind = "exit" => results[i] = scenario[i].exitCode
         /\ pc \in {"exit", "done"} => ~summary[f].pass /\ Includes(failures, f)
         /\ pc = "done" => exitCode > 0
    /\ ( /\ pc = "done"
         /\ N = 8
         /\ concurrency = Infinity
         /\ Cardinality(LaunchFailed) = 1
         /\ \A i \in (1..N) \ LaunchFailed : Succeeded(scenario[i]) )
       => /\ DOMAIN results = 1..8
          /\ Cardinality(PassLines) = 7
          /\ Len(failures) = 1
          /\ exitCode > 0

C8_Witness ==
    /\ pc = "done"
    /\ N = 8
    /\ concurrency = Infinity
    /\ LaunchFailed = {5}
    /\ Cardinality(PassLines) = 7
    /\ failures = <<5>>
    /\ exitCode > 0

C10_HeartbeatStop ==
    /\ [](AfterStop => statusInterval = "cleared")
    /\ [][AfterStop => beats' = beats /\ lastBeat' = lastBeat]_vars

C10_Witness ==
    /\ pc = "done"
    /\ statusInterval = "cleared"
    /\ beats = 0
    /\ N = 3

(***************************************************************************)
(* C11  Heartbeat freshness: a heartbeat line prints the size the          *)
(* completion set has at the moment of the tick, so a line printed after   *)
(* a completion shows a count other than the one at heartbeat start.       *)
(***************************************************************************)
C11_HeartbeatFreshness ==
    [][beats' # beats =>
          /\ beats' = beats + 1
          /\ lastBeat' = Cardinality(completed)
          /\ (lastBeat # Cardinality(completed) => lastBeat' # lastBeat)]_vars

C11_Witness ==
    /\ beats = 2
    /\ lastBeat = 2
    /\ Cardinality(completed) = 2
    /\ N = 3
    /\ limiter = "running"

(***************************************************************************)
(* C12  Heartbeat is purely observational: a tick changes the log and      *)
(* nothing else; the completion set, the started and pending tasks, the    *)
(* recorded results, main's position and the exit code are left as they    *)
(* were.                                                                   *)
(***************************************************************************)
C12_HeartbeatObservesOnly ==
    [][beats' # beats =>
          UNCHANGED <<pc, runs, concurrency, promptConcurrency, completed,
                      statusInterval, tasks, taskState, launches, scenario,
                      results, limiter, summary, failures, exitCode>>]_vars

C12_Witness ==
    /\ beats = 2
    /\ lastBeat = 1
    /\ pc = "done"
    /\ N = 3
    /\ completed = {1, 2, 3}
    /\ exitCode = 0

(***************************************************************************)
(* The command line as its user reads it: the values given to a flag, and  *)
(* what kind of value each is.                                             *)
(***************************************************************************)
FlagValues(flags) ==
    { argv[i + 1] : i \in { j \in 1..(Len(argv) - 1) : argv[j] \in flags } }

ConcurrencyFlags == { <<"-j">>, <<"--concurrency">> }

\* an optional sign followed by decimal digits, and nothing else
Numeric(v) ==
    LET first == IF Len(v) > 0 /\ v[1] \in {"-", "+"} THEN 2 ELSE 1
    IN  first <= Len(v) /\ \A i \in first..Len(v) : IsDigit(v[i])

RECURSIVE DecimalValue(_, _)
DecimalValue(v, n) ==
    IF n = 0 THEN 0
    ELSE IF IsDigit(v[n]) THEN 10 * DecimalValue(v, n - 1) + DigitVal(v[n])
    ELSE 0

IntegerOf(v) == IF v[1] = "-" THEN 0 - DecimalValue(v, Len(v)) ELSE DecimalValue(v, Len(v))

NothingLaunched ==
    /\ statusInterval = "none"
    /\ limiter = "idle"
    /\ launches = <<>>
    /\ completed = {}
    /\ summary = <<>>

InvalidConfiguration ==
    \/ \E v \in FlagValues({ <<"--agent">> }) : ~Includes(ALL_AGENTS, Lexeme(v))
    \/ \E v \in FlagValues({ <<"--mode">> }) : v \notin { <<"test">>, <<"full">> }
    \/ \E v \in FlagValues({ <<"--search-provider">>, <<"--mcp">> }) :
          v \notin { <<"builtin">>, <<"you">> }
    \/ \E v \in FlagValues(ConcurrencyFlags) : ~Numeric(v) \/ IntegerOf(v) < 0
    \/ \E v \in FlagValues({ <<"--prompt-concurrency">> }) :
          Numeric(v) /\ IntegerOf(v) < 1
    \/ /\ FlagValues({ <<"--mode">> }) = {}
       /\ \/ ~entrypoint.readable
          \/ /\ entrypoint.dataset = ""
             /\ ~entrypoint.templatePath
             /\ ~entrypoint.testPath
             /\ ~entrypoint.fullPath

(***************************************************************************)
(* C13  Fail before launch: a configuration with an invalid agent, mode    *)
(* or search provider, a negative or non-numeric concurrency, a            *)
(* prompt-concurrency below 1 or an undetectable mode is rejected; a       *)
(* rejected run ends with exit code 1, and it has launched no scenario     *)
(* and started no heartbeat.                                               *)
(***************************************************************************)
C13_FailBeforeLaunch ==
    /\ [][(pc = "start" /\ InvalidConfiguration) => pc' = "catch"]_vars
    /\ [][pc = "catch" => (pc' = "done" /\ exitCode' = 1)]_vars
    /\ []((pc = "catch" \/ (pc = "done" /\ runs = <<>>)) => NothingLaunched)

(***************************************************************************)
(* C20  Concurrency setting: the cap is unbounded when -j/--concurrency    *)
(* is 0 or is not given and is exactly k when its value is an integer      *)
(* k >= 1; a negative or non-numeric value is rejected and never reaches   *)
(* the limiter.                                                            *)
(***************************************************************************)
C20_ConcurrencySetting ==
    [][pc = "start" =>
          /\ (\E v \in FlagValues(ConcurrencyFlags) :
                 ~Numeric(v) \/ IntegerOf(v) < 0) => pc' = "catch"
          /\ pc' \in {"heartbeat", "done"} =>
               /\ FlagValues(ConcurrencyFlags) = {} => concurrency' = Infinity
               /\ \A v \in FlagValues(ConcurrencyFlags) :
                    /\ Numeric(v)
                    /\ IntegerOf(v) = 0 => concurrency' = Infinity
                    /\ IntegerOf(v) >= 1 => concurrency' = Num(IntegerOf(v))]_vars

FiniteCap == concurrency.t = "number"
SettledCount == Cardinality({ i \in 1..N : HasSettled(i) })
Smaller(a, b) == IF a < b THEN a ELSE b

(***************************************************************************)
(* C14  FIFO admission: under a finite cap k the scenarios are started in  *)
(* increasing input index: whenever scenario j has been started, every     *)
(* scenario before it has been started, and scenario j > k has been        *)
(* started only after at least j - k settlements (of 4 scenarios with      *)
(* cap 2: the third only after one settlement, the fourth only after two). *)
(***************************************************************************)
C14_FifoAdmission ==
    (Launched /\ FiniteCap) =>
        \A j \in 1..N :
            launches[j] >= 1 =>
                /\ \A i \in 1..(j - 1) : launches[i] >= 1
                /\ j > concurrency.n => SettledCount >= j - concurrency.n

C14_Witness ==
    /\ N = 4
    /\ concurrency = Num(2)
    /\ limiter = "running"
    /\ launches = <<1, 1, 1, 0>>
    /\ SettledCount = 1

(***************************************************************************)
(* C15  Saturation: under a finite cap k, in every state the limiter has   *)
(* been called, the number of tasks in flight is min(k, number of tasks    *)
(* not yet settled), whether tasks settled by fulfilment or by rejection;  *)
(* so while a task is pending exactly k tasks are in flight.               *)
(***************************************************************************)
C15_Saturation ==
    (Launched /\ FiniteCap) =>
        /\ InFlight = Smaller(concurrency.n, N - SettledCount)
        /\ Pending(taskState) # {} => InFlight = concurrency.n

C15_Witness ==
    /\ N = 3
    /\ concurrency = Num(1)
    /\ Rejected = {1}
    /\ taskState = <<"settled", "running", "pending">>

(***************************************************************************)
(* C16  Completion-set integrity: the completion set holds only ids in     *)
(* 1..N, holds an id only if the runner of that scenario has completed,    *)
(* only grows, and changes only in the step in which a runner completes,   *)
(* which adds the id of that runner's scenario; when the limiter has       *)
(* returned and every runner has completed, the set is exactly 1..N.       *)
(***************************************************************************)
RunnerCompleted(i) == HasSettled(i) /\ scenario[i].kind # "rejected"

C16_CompletionSetIntegrity ==
    /\ [](completed \subseteq 1..N)
    /\ [](\A id \in completed : RunnerCompleted(id))
    /\ [][completed \subseteq completed']_vars
    /\ [][completed' # completed =>
            \E i \in 1..N : /\ ~HasSettled(i)
                            /\ RunnerCompleted(i)'
                            /\ completed' = completed \cup {i}]_vars
    /\ []((Returned /\ \A i \in 1..N : RunnerCompleted(i)) => completed = 1..N)

C16_Witness ==
    /\ N = 3
    /\ Returned
    /\ pc = "await"
    /\ \A i \in 1..N : RunnerCompleted(i)
    /\ LaunchFailed = {2}
    /\ completed = {1, 2, 3}

(***************************************************************************)
(* C17  A hung scenario blocks only its own slot: when the runner of one   *)
(* scenario never settles, the limiter never returns and no summary or     *)
(* exit code is produced; with cap k >= 2 or unbounded the hung scenario   *)
(* is started and every other scenario is eventually started and settled;  *)
(* with cap 1 no scenario after the hung one is ever started.              *)
(***************************************************************************)
OthersSettled == \A i \in (1..N) \ {hung} : launches[i] >= 1 /\ HasSettled(i)
HungRunning == hung \in DOMAIN taskState /\ taskState[hung] = "running"

C17_HungBlocksOnlyItsSlot ==
    /\ [](hung # 0 => (~Returned /\ ~AfterStop /\ summary = <<>> /\ exitCode = NoExit))
    /\ (hung # 0 /\ concurrency # Num(1)) ~> (HungRunning /\ OthersSettled)
    /\ [](hung # 0 /\ HungRunning => [](HungRunning /\ ~HasSettled(hung)))
    /\ [](hung # 0 /\ concurrency = Num(1) /\ Launched =>
            \A i \in (hung + 1)..N : launches[i] = 0)

C17_Witness ==
    /\ hung = 1
    /\ N = 3
    /\ concurrency = Num(2)
    /\ taskState = <<"running", "settled", "settled">>
    /\ limiter = "running"
    /\ completed = {2, 3}

(***************************************************************************)
(* C18  Orchestration order: in a run that launches scenarios the          *)
(* heartbeat is started before the first task is started; it is stopped    *)
(* only when the limiter has returned, and is stopped before the summary;  *)
(* the summary and the exit code are computed only after the limiter has   *)
(* returned one result per scenario and the heartbeat has been stopped;    *)
(* no heartbeat line follows the summary.                                  *)
(***************************************************************************)
SummaryOrExit == pc \in {"exit", "done"} \/ summary # <<>> \/ exitCode # NoExit

C18_OrchestrationOrder ==
    /\ [](Launched => statusInterval # "none")
    /\ []((\E i \in DOMAIN launches : launches[i] >= 1) => statusInterval # "none")
    /\ [](statusInterval = "cleared" => Returned)
    /\ []((Launched /\ AfterStop) => statusInterval = "cleared")
    /\ []((Launched /\ SummaryOrExit) =>
             (Returned /\ DOMAIN results = 1..N /\ statusInterval = "cleared"))
    /\ [][(Launched /\ SummaryOrExit) => beats' = beats]_vars

C18_Witness ==
    /\ N = 4
    /\ pc = "done"
    /\ Launched
    /\ beats = 2
    /\ statusInterval = "cleared"
    /\ Len(summary) = 4
    /\ exitCode = 1

(***************************************************************************)
(* C19  A cap at or above the task count behaves as unbounded: for N       *)
(* tasks and a finite cap k >= N, calling the limiter and every settlement *)
(* lead to the state they lead to with no cap, all N tasks are started     *)
(* before any has settled and none is ever pending, and the result         *)
(* sequence is the one of the unbounded run: slot i holds the outcome of   *)
(* task i.                                                                 *)
(***************************************************************************)
CapCoversAll == FiniteCap /\ concurrency.n >= N

C19_CapAtLeastCountIsUnbounded ==
    CapCoversAll =>
        /\ pc = "limit" =>
             Admit([ k \in DOMAIN MainTasks(runs) |-> "pending" ], LimiterCap)
               = Admit([ k \in DOMAIN MainTasks(runs) |-> "pending" ], Infinity)
        /\ Launched =>
             /\ Pending(taskState) = {}
             /\ \A i \in 1..N : launches[i] = 1
             /\ \A k \in DOMAIN taskState :
                  Admit([taskState EXCEPT ![k] = "settled"], LimiterCap)
                    = Admit([taskState EXCEPT ![k] = "settled"], Infinity)
             /\ \A i \in DOMAIN results : results[i] = OutcomeOf(i)
             /\ Returned => DOMAIN results = 1..N

C19_Witness ==
    /\ N = 3
    /\ concurrency = Num(3)
    /\ limiter = "running"
    /\ taskState = <<"running", "running", "running">>
    /\ SettledCount = 0

====
